---------------------------- MODULE Spec2Model ----------------------------
(***************************************************************************)
(* HRectBound<t_pow> (src/mlpack/core/tree/hrectbound_impl.hpp): the       *)
(* hyper-rectangle bound of the space trees, an array of `dim` math::Range *)
(* intervals, with its constructors, assignment, Clear, the union          *)
(* operators, Centroid, Contains and the distance queries.  At the end,    *)
(* the k-means executable (src/mlpack/methods/kmeans/kmeans_main.cpp).     *)
(*                                                                         *)
(* Doubles are modelled by integers.  Coordinates come from a small grid,  *)
(* on which every sum, difference, square and quotient the code computes   *)
(* is exact; a point given to MaxDistance may also have a coordinate so    *)
(* large that a square overflows.  DBL_MAX (the ends of an empty math::Range), the infinities   *)
(* and NaN are three magnitudes far above the grid, with the IEEE rules    *)
(* the code meets on them: DBL_MAX absorbs a grid value, DBL_MAX + DBL_MAX *)
(* overflows to infinity, infinity - infinity is NaN, a comparison with    *)
(* NaN is false.                                                           *)
(***************************************************************************)
EXTENDS Integers, Sequences, FiniteSets

VARIABLES
    objs,    \* Spec: the HRectBound objects, slot -> [live, dim, bounds]
    heap,    \* Spec: the Range arrays made by new[], address -> [used, cells]
    bound,   \* SpecQuery, SpecUnion: the bound the operations are called on
    query,   \* SpecQuery: the last query, its operands and what it returned
    hist,    \* SpecUnion: the last union, its operand and the arrays before it;
             \* SpecGrow: the number of unions and the points unioned in;
             \* Spec: whether the last operation was an assignment or a
             \* Clear, its object and the object's dim before it
    kmeans   \* SpecKMeans: the run of the k-means executable: its command
             \* line, the function it is in and what it has done

vars == <<objs, heap, bound, query, hist, kmeans>>

---------------------------------------------------------------------------
(* Bounds of the model. *)

\* The grid of coordinates is 0, 5, ..., 5 * MaxCoord.
MaxCoord == 3

\* The most points unioned into one bound in SpecGrow.
MaxUnions == 3

\* The dimensionalities: no axis (the default constructor), one axis, and
\* two axes (a sum over axes).  The loops treat every axis alike.
Dims == 0 .. 2

Coords == { 5 * k : k \in 0 .. MaxCoord }

\* A coordinate far from the grid, of the points given to MaxDistance only:
\* its square is a finite double, the square of its double overflows (as
\* that of 1e154 does).
Big == 700

WideCoords == Coords \cup {Big}

---------------------------------------------------------------------------
(* double *)

\* The metric exponent, HRectBound's template parameter.
t_pow == 2

DblMax == 1000000
Inf == 2 * DblMax
NaN == 3 * DblMax
Half == DblMax \div 2

\* The double nearest to the exact result z of one operation on finite
\* operands: a grid-sized value is exact, a value near +-DBL_MAX is
\* +-DBL_MAX, a value beyond overflows.
Round(z) ==
    IF z >= DblMax + Half THEN Inf
    ELSE IF z >= Half THEN DblMax
    ELSE IF z <= -(DblMax + Half) THEN -Inf
    ELSE IF z <= -Half THEN -DblMax
    ELSE z

FNeg(x) == IF x = NaN THEN NaN ELSE -x

FAbs(x) == IF x = NaN THEN NaN ELSE IF x < 0 THEN -x ELSE x

FAdd(x, y) ==
    IF x = NaN \/ y = NaN THEN NaN
    ELSE IF FAbs(x) = Inf /\ FAbs(y) = Inf THEN (IF x = y THEN x ELSE NaN)
    ELSE IF FAbs(x) = Inf THEN x
    ELSE IF FAbs(y) = Inf THEN y
    ELSE Round(x + y)

FSub(x, y) == FAdd(x, FNeg(y))

FLess(x, y) == x # NaN /\ y # NaN /\ x < y

FGeq(x, y) == x # NaN /\ y # NaN /\ x >= y

\* std::max(a, b) is (a < b) ? b : a, and std::min(a, b) is (b < a) ? b : a.
FMax(a, b) == IF FLess(a, b) THEN b ELSE a

FMin(a, b) == IF FLess(b, a) THEN b ELSE a

\* x * y: a product with DBL_MAX or an infinity is taken by cases (DBL_MAX
\* times a value of magnitude 2 or more overflows).
FMul(x, y) ==
    IF x = NaN \/ y = NaN THEN NaN
    ELSE IF x = 0 \/ y = 0
         THEN (IF FAbs(x) = Inf \/ FAbs(y) = Inf THEN NaN ELSE 0)
    ELSE IF FAbs(x) >= DblMax \/ FAbs(y) >= DblMax
         THEN (IF FAbs(x) = 1 THEN x * y
               ELSE IF FAbs(y) = 1 THEN x * y
               ELSE IF (x < 0) = (y < 0) THEN Inf ELSE -Inf)
    ELSE Round(x * y)

\* pow(x, n) for a whole exponent n.
RECURSIVE FPow(_, _)
FPow(x, n) == IF n = 0 THEN 1 ELSE FMul(FPow(x, n - 1), x)

\* x / 4.0: exact on the multiples of 4, which is what the code divides.
FDiv4(x) ==
    IF x = NaN THEN NaN
    ELSE IF FAbs(x) >= DblMax THEN x
    ELSE x \div 4

\* sum = 0; sum += terms[1]; sum += terms[2]; ...
RECURSIVE FSum(_)
FSum(terms) ==
    IF terms = << >> THEN 0
    ELSE FAdd(FSum(SubSeq(terms, 1, Len(terms) - 1)), terms[Len(terms)])

\* pow(sum, 2.0 / (double) t_pow): the exponent is whole for t_pow 1 and 2.
PowRoot(sum) == FPow(sum, 2 \div t_pow)

---------------------------------------------------------------------------
(* math::Range *)

\* Range(): the empty interval.
EmptyRange == [lo |-> DblMax, hi |-> -DblMax]

\* Range(point): the interval [point, point].
PointRange(x) == [lo |-> x, hi |-> x]

\* Range::Mid(): exact where lo + hi is even.
Mid(r) == FAdd(r.lo, r.hi) \div 2

\* Range::Contains(double).
RangeContains(r, x) == FGeq(x, r.lo) /\ FGeq(r.hi, x)

\* Range::operator|=(double).
RangeUnionPoint(r, x) ==
    [lo |-> IF FLess(x, r.lo) THEN x ELSE r.lo,
     hi |-> IF FLess(r.hi, x) THEN x ELSE r.hi]

\* Range::operator|=(const Range&).
RangeUnion(r, s) ==
    [lo |-> IF FLess(s.lo, r.lo) THEN s.lo ELSE r.lo,
     hi |-> IF FLess(r.hi, s.hi) THEN s.hi ELSE r.hi]

---------------------------------------------------------------------------
(* HRectBound: the const member functions, on a bound b = [dim, bounds]    *)
(* whose bounds is the array of its dim Ranges (axis i of the code is      *)
(* bounds[i + 1] here).                                                    *)

\* The term one axis adds to a minimum distance:
\* pow((lower + fabs(lower)) + (higher + fabs(higher)), (double) t_pow).
MinTerm(lower, higher) ==
    FPow(FAdd(FAdd(lower, FAbs(lower)), FAdd(higher, FAbs(higher))), t_pow)

\* The term one axis adds to a filtered maximum distance:
\* pow(fabs(higher - lower) + higher + lower, (double) t_pow).
MaxTermFiltered(lower, higher) ==
    FPow(FAdd(FAdd(FAbs(FSub(higher, lower)), higher), lower), t_pow)

\* Centroid without the set_size: centroid keeps the length it came with.
CentroidNoResize(b, centroid) ==
    [i \in 1 .. Len(centroid) |->
        IF i <= b.dim THEN Mid(b.bounds[i]) ELSE centroid[i]]

\* HRectBound::Centroid(arma::vec& centroid): what centroid holds after it.
Centroid(b, centroid) ==
    LET sized == IF ~(Len(centroid) = b.dim)
                 THEN [i \in 1 .. b.dim |-> 0]
                 ELSE centroid
    IN  [i \in 1 .. Len(sized) |->
            IF i <= b.dim THEN Mid(b.bounds[i]) ELSE sized[i]]

\* HRectBound::Contains(const arma::vec& point), point.n_elem <= dim.
Contains(b, point) ==
    \A i \in 1 .. Len(point) : RangeContains(b.bounds[i], point[i])

\* MinDistance(point) without the final division by four.
MinDistancePointNoQuarter(b, point) ==
    LET terms == [d \in 1 .. b.dim |->
                    MinTerm(FSub(b.bounds[d].lo, point[d]),
                            FSub(point[d], b.bounds[d].hi))]
    IN  PowRoot(FSum(terms))

\* MinDistance(point) with higher = bounds[d].hi - point[d].
MinDistancePointHigherSwapped(b, point) ==
    LET terms == [d \in 1 .. b.dim |->
                    MinTerm(FSub(b.bounds[d].lo, point[d]),
                            FSub(b.bounds[d].hi, point[d]))]
    IN  FDiv4(PowRoot(FSum(terms)))

\* HRectBound::MinDistance(const arma::vec& point).
MinDistancePoint(b, point) ==
    LET terms == [d \in 1 .. b.dim |->
                    MinTerm(FSub(b.bounds[d].lo, point[d]),
                            FSub(point[d], b.bounds[d].hi))]
    IN  FDiv4(PowRoot(FSum(terms)))

\* HRectBound::MinDistance(const arma::vec& point, indices).
MinDistancePointFiltered(b, point, indices) ==
    LET terms == [index \in 1 .. Len(indices) |->
                    LET dimension == indices[index] + 1
                    IN  MinTerm(FSub(b.bounds[dimension].lo, point[dimension]),
                                FSub(point[dimension], b.bounds[dimension].hi))]
    IN  FDiv4(PowRoot(FSum(terms)))

\* MinDistance(other) with lower = obound->lo - mbound->lo.
MinDistanceBoundLowerLo(b, other) ==
    LET terms == [d \in 1 .. b.dim |->
                    MinTerm(FSub(other.bounds[d].lo, b.bounds[d].lo),
                            FSub(b.bounds[d].lo, other.bounds[d].hi))]
    IN  FDiv4(PowRoot(FSum(terms)))

\* HRectBound::MinDistance(const HRectBound& other).
MinDistanceBound(b, other) ==
    LET terms == [d \in 1 .. b.dim |->
                    MinTerm(FSub(other.bounds[d].lo, b.bounds[d].hi),
                            FSub(b.bounds[d].lo, other.bounds[d].hi))]
    IN  FDiv4(PowRoot(FSum(terms)))

\* HRectBound::MinDistance(const HRectBound& other, indices).
MinDistanceBoundFiltered(b, other, indices) ==
    LET terms == [index \in 1 .. Len(indices) |->
                    LET dimension == indices[index] + 1
                    IN  MinTerm(FSub(b.bounds[dimension].lo,
                                     other.bounds[dimension].hi),
                                FSub(other.bounds[dimension].lo,
                                     b.bounds[dimension].hi))]
    IN  FDiv4(PowRoot(FSum(terms)))

\* MaxDistance(point) with the division by four of the other overloads.
MaxDistancePointQuartered(b, point) ==
    LET terms == [d \in 1 .. b.dim |->
                    LET v == FAbs(FMax(FSub(point[d], b.bounds[d].lo),
                                       FSub(b.bounds[d].hi, point[d])))
                    IN  FPow(v, t_pow)]
    IN  FDiv4(PowRoot(FSum(terms)))

\* HRectBound::MaxDistance(const arma::vec& point).
MaxDistancePoint(b, point) ==
    LET terms == [d \in 1 .. b.dim |->
                    LET v == FAbs(FMax(FSub(point[d], b.bounds[d].lo),
                                       FSub(b.bounds[d].hi, point[d])))
                    IN  FPow(v, t_pow)]
    IN  PowRoot(FSum(terms))

\* MaxDistance(point, indices) looping over the dim axes, not the indices.
MaxDistancePointFilteredAllAxes(b, point, indices) ==
    LET terms == [dimension \in 1 .. b.dim |->
                    LET lower == FAbs(FSub(point[dimension],
                                           b.bounds[dimension].lo))
                        higher == FAbs(FSub(point[dimension],
                                            b.bounds[dimension].hi))
                    IN  MaxTermFiltered(lower, higher)]
    IN  FDiv4(PowRoot(FSum(terms)))

\* HRectBound::MaxDistance(const arma::vec& point, indices).
MaxDistancePointFiltered(b, point, indices) ==
    LET terms == [index \in 1 .. Len(indices) |->
                    LET dimension == indices[index] + 1
                        lower == FAbs(FSub(point[dimension],
                                           b.bounds[dimension].lo))
                        higher == FAbs(FSub(point[dimension],
                                            b.bounds[dimension].hi))
                    IN  MaxTermFiltered(lower, higher)]
    IN  FDiv4(PowRoot(FSum(terms)))

\* HRectBound::MaxDistance(const HRectBound& other).
MaxDistanceBound(b, other) ==
    LET terms == [d \in 1 .. b.dim |->
                    LET v == FAbs(FMax(FSub(other.bounds[d].hi, b.bounds[d].lo),
                                       FSub(b.bounds[d].hi, other.bounds[d].lo)))
                    IN  FPow(v, t_pow)]
    IN  PowRoot(FSum(terms))

\* MaxDistance(other, indices) without the final division by four.
MaxDistanceBoundFilteredNoQuarter(b, other, indices) ==
    LET terms == [index \in 1 .. Len(indices) |->
                    LET dimension == indices[index] + 1
                        lower == FAbs(FSub(other.bounds[dimension].hi,
                                           b.bounds[dimension].lo))
                        higher == FAbs(FSub(other.bounds[dimension].lo,
                                            b.bounds[dimension].hi))
                    IN  MaxTermFiltered(lower, higher)]
    IN  PowRoot(FSum(terms))

\* HRectBound::MaxDistance(const HRectBound& other, indices).
MaxDistanceBoundFiltered(b, other, indices) ==
    LET terms == [index \in 1 .. Len(indices) |->
                    LET dimension == indices[index] + 1
                        lower == FAbs(FSub(other.bounds[dimension].hi,
                                           b.bounds[dimension].lo))
                        higher == FAbs(FSub(other.bounds[dimension].lo,
                                            b.bounds[dimension].hi))
                    IN  MaxTermFiltered(lower, higher)]
    IN  FDiv4(PowRoot(FSum(terms)))

\* HRectBound::RangeDistance(const HRectBound& other).
RangeDistanceBound(b, other) ==
    LET v1(d) == FSub(other.bounds[d].lo, b.bounds[d].hi)
        v2(d) == FSub(b.bounds[d].lo, other.bounds[d].hi)
        vHi(d) == IF FGeq(v1(d), v2(d)) THEN FNeg(v2(d)) ELSE FNeg(v1(d))
        vLo(d) == IF FGeq(v1(d), v2(d))
                  THEN (IF FLess(0, v1(d)) THEN v1(d) ELSE 0)
                  ELSE (IF FLess(0, v2(d)) THEN v2(d) ELSE 0)
        loSum == FSum([d \in 1 .. b.dim |-> FPow(vLo(d), t_pow)])
        hiSum == FSum([d \in 1 .. b.dim |-> FPow(vHi(d), t_pow)])
    IN  [lo |-> PowRoot(loSum), hi |-> PowRoot(hiSum)]

\* RangeDistance(point) taking -std::max(v1, v2) for a point inside.
RangeDistancePointInnerMax(b, point) ==
    LET v1(d) == FSub(b.bounds[d].lo, point[d])
        v2(d) == FSub(point[d], b.bounds[d].hi)
        vHi(d) == IF FGeq(v1(d), 0) THEN FNeg(v2(d))
                  ELSE IF FGeq(v2(d), 0) THEN FNeg(v1(d))
                  ELSE FNeg(FMax(v1(d), v2(d)))
        vLo(d) == IF FGeq(v1(d), 0) THEN v1(d)
                  ELSE IF FGeq(v2(d), 0) THEN v2(d)
                  ELSE 0
        loSum == FSum([d \in 1 .. b.dim |-> FPow(vLo(d), t_pow)])
        hiSum == FSum([d \in 1 .. b.dim |-> FPow(vHi(d), t_pow)])
    IN  [lo |-> PowRoot(loSum), hi |-> PowRoot(hiSum)]

\* HRectBound::RangeDistance(const arma::vec& point).
RangeDistancePoint(b, point) ==
    LET v1(d) == FSub(b.bounds[d].lo, point[d])
        v2(d) == FSub(point[d], b.bounds[d].hi)
        vHi(d) == IF FGeq(v1(d), 0) THEN FNeg(v2(d))
                  ELSE IF FGeq(v2(d), 0) THEN FNeg(v1(d))
                  ELSE FNeg(FMin(v1(d), v2(d)))
        vLo(d) == IF FGeq(v1(d), 0) THEN v1(d)
                  ELSE IF FGeq(v2(d), 0) THEN v2(d)
                  ELSE 0
        loSum == FSum([d \in 1 .. b.dim |-> FPow(vLo(d), t_pow)])
        hiSum == FSum([d \in 1 .. b.dim |-> FPow(vHi(d), t_pow)])
    IN  [lo |-> PowRoot(loSum), hi |-> PowRoot(hiSum)]

---------------------------------------------------------------------------
(* HRectBound: the member functions that change the array of Ranges.       *)

\* Clear() with the loop stopping one axis early (i < dim - 1).
ClearButLast(b) ==
    [i \in 1 .. b.dim |-> IF i < b.dim THEN EmptyRange ELSE b.bounds[i]]

\* HRectBound::Clear(): the array after it.
Clear(b) == [i \in 1 .. b.dim |-> EmptyRange]

\* operator|=(vector) with bounds[i] = vector[i] for bounds[i] |= vector[i].
UnionPointAssigns(b, vector) ==
    [i \in 1 .. b.dim |-> PointRange(vector[i])]

\* operator|=(vector) with the loop stopping after the first axis (i < 1).
UnionPointFirstAxis(b, vector) ==
    [i \in 1 .. b.dim |->
        IF i = 1 THEN RangeUnionPoint(b.bounds[i], vector[i]) ELSE b.bounds[i]]

\* HRectBound::operator|=(const arma::vec& vector): the array after it.
UnionPoint(b, vector) ==
    [i \in 1 .. b.dim |-> RangeUnionPoint(b.bounds[i], vector[i])]

\* operator|=(other) reading this bound's next axis on the left:
\* bounds[i] = bounds[i + 1] | other.bounds[i], the last axis as in the code.
UnionBoundNextAxis(b, other) ==
    [i \in 1 .. b.dim |->
        RangeUnion(b.bounds[IF i < b.dim THEN i + 1 ELSE i], other.bounds[i])]

\* HRectBound::operator|=(const HRectBound& other): the array after it.
UnionBound(b, other) ==
    [i \in 1 .. b.dim |-> RangeUnion(b.bounds[i], other.bounds[i])]

---------------------------------------------------------------------------
(* The values the operations are called with. *)

\* The non-empty intervals with both ends on the grid.
Intervals ==
    { r \in [lo : Coords, hi : Coords] : r.lo <= r.hi }

\* The arrays a bound of dimension d can hold: every axis empty (as the
\* sized constructor and Clear leave it) or, after a union, every axis
\* non-empty.
Arrays(d) == [1 .. d -> Intervals] \cup { [i \in 1 .. d |-> EmptyRange] }

Bounds(d) == { [dim |-> d, bounds |-> a] : a \in Arrays(d) }

AllBounds == UNION { Bounds(d) : d \in Dims }

\* The arma::vec of n_elem = d with its coordinates on the grid.
Points(d) == [1 .. d -> Coords]

AllPoints == UNION { Points(d) : d \in Dims }

\* The point given to MaxDistance: a coordinate may be Big.
WidePoints(d) == [1 .. d -> WideCoords]

\* The std::vector<size_t> of at most d indices of the axes 0 .. d - 1.
IndexSeqs(d) == UNION { [1 .. n -> 0 .. d - 1] : n \in 0 .. d }

NoBound == [dim |-> 0, bounds |-> << >>]

NoQuery ==
    [op |-> "none", point |-> << >>, other |-> NoBound, indices |-> << >>,
     val |-> 0, range |-> [lo |-> 0, hi |-> 0], vec |-> << >>, flag |-> FALSE]

NoHist ==
    [kind |-> "none", point |-> << >>, other |-> NoBound, count |-> 0,
     start |-> << >>, before |-> << >>, obj |-> "none", dim |-> 0,
     points |-> {}]

\* Every axis midpoint is a whole number (Mid is exact there).
MidsOnGrid(b) ==
    \A i \in 1 .. b.dim : (b.bounds[i].lo + b.bounds[i].hi) % 2 = 0

\* No run of the k-means executable.
NoRun == [pc |-> "none"]

---------------------------------------------------------------------------
(* SpecQuery: the const member functions called on a bound.  They leave    *)
(* the bound as it is, so a behaviour is one bound and one call on it (and *)
(* Contains of the vector Centroid wrote).  Every call meets its           *)
(* Log::Assert (the operand has the bound's dim; a point given to Contains *)
(* has at most dim coordinates).                                           *)

InitQuery ==
    /\ bound \in AllBounds
    /\ query = NoQuery
    /\ objs = << >>
    /\ heap = << >>
    /\ hist = NoHist
    /\ kmeans = NoRun

\* The call returns: query holds the operands and the value; the bound and
\* the other variables are as before.
Returns(q) ==
    /\ query' = q
    /\ UNCHANGED <<objs, heap, bound, hist, kmeans>>

CallMinDistancePoint ==
    /\ query.op = "none"
    /\ \E point \in Points(bound.dim) :
            Returns([NoQuery EXCEPT !.op = "MinDistancePoint", !.point = point,
                                 !.val = MinDistancePoint(bound, point)])

CallMinDistancePointFiltered ==
    /\ query.op = "none"
    /\ \E point \in Points(bound.dim), indices \in IndexSeqs(bound.dim) :
            Returns([NoQuery EXCEPT !.op = "MinDistancePointFiltered",
                    !.point = point, !.indices = indices,
                    !.val = MinDistancePointFiltered(bound, point, indices)])

CallMinDistanceBound ==
    /\ query.op = "none"
    /\ \E other \in Bounds(bound.dim) :
            Returns([NoQuery EXCEPT !.op = "MinDistanceBound", !.other = other,
                                 !.val = MinDistanceBound(bound, other)])

CallMinDistanceBoundFiltered ==
    /\ query.op = "none"
    /\ \E other \in Bounds(bound.dim), indices \in IndexSeqs(bound.dim) :
            Returns([NoQuery EXCEPT !.op = "MinDistanceBoundFiltered",
                    !.other = other, !.indices = indices,
                    !.val = MinDistanceBoundFiltered(bound, other, indices)])

CallMaxDistancePoint ==
    /\ query.op = "none"
    /\ \E point \in WidePoints(bound.dim) :
            Returns([NoQuery EXCEPT !.op = "MaxDistancePoint", !.point = point,
                                 !.val = MaxDistancePoint(bound, point)])

CallMaxDistancePointFiltered ==
    /\ query.op = "none"
    /\ \E point \in WidePoints(bound.dim), indices \in IndexSeqs(bound.dim) :
            Returns([NoQuery EXCEPT !.op = "MaxDistancePointFiltered",
                    !.point = point, !.indices = indices,
                    !.val = MaxDistancePointFiltered(bound, point, indices)])

CallMaxDistanceBound ==
    /\ query.op = "none"
    /\ \E other \in Bounds(bound.dim) :
            Returns([NoQuery EXCEPT !.op = "MaxDistanceBound", !.other = other,
                                 !.val = MaxDistanceBound(bound, other)])

CallMaxDistanceBoundFiltered ==
    /\ query.op = "none"
    /\ \E other \in Bounds(bound.dim), indices \in IndexSeqs(bound.dim) :
            Returns([NoQuery EXCEPT !.op = "MaxDistanceBoundFiltered",
                    !.other = other, !.indices = indices,
                    !.val = MaxDistanceBoundFiltered(bound, other, indices)])

CallRangeDistancePoint ==
    /\ query.op = "none"
    /\ \E point \in Points(bound.dim) :
            Returns([NoQuery EXCEPT !.op = "RangeDistancePoint", !.point = point,
                                 !.range = RangeDistancePoint(bound, point)])

CallRangeDistanceBound ==
    /\ query.op = "none"
    /\ \E other \in Bounds(bound.dim) :
            Returns([NoQuery EXCEPT !.op = "RangeDistanceBound", !.other = other,
                                 !.range = RangeDistanceBound(bound, other)])

\* Centroid is given a vector of any length; Mid is modelled where it is
\* exact.
CallCentroid ==
    /\ query.op = "none"
    /\ MidsOnGrid(bound)
    /\ \E n \in Dims :
        LET centroid == [i \in 1 .. n |-> 0]
        IN  Returns([NoQuery EXCEPT !.op = "Centroid", !.point = centroid,
                                     !.vec = Centroid(bound, centroid)])

CallContains ==
    /\ query.op = "none"
    /\ \E n \in 0 .. bound.dim : \E point \in Points(n) :
            Returns([NoQuery EXCEPT !.op = "Contains", !.point = point,
                                 !.flag = Contains(bound, point)])

\* bound.Centroid(c); bound.Contains(c)
CallContainsCentroid ==
    /\ query.op = "Centroid"
    /\ Returns([query EXCEPT !.op = "ContainsCentroid",
                              !.flag = Contains(bound, query.vec)])

NextQuery ==
    \/ CallMinDistancePoint
    \/ CallMinDistancePointFiltered
    \/ CallMinDistanceBound
    \/ CallMinDistanceBoundFiltered
    \/ CallMaxDistancePoint
    \/ CallMaxDistancePointFiltered
    \/ CallMaxDistanceBound
    \/ CallMaxDistanceBoundFiltered
    \/ CallRangeDistancePoint
    \/ CallRangeDistanceBound
    \/ CallCentroid
    \/ CallContains
    \/ CallContainsCentroid

SpecQuery == InitQuery /\ [][NextQuery]_vars

---------------------------------------------------------------------------
(* What the claims measure the code against: plain geometry on the grid,   *)
(* in exact integers.  A box with its ends on the grid and a point of the  *)
(* grid have their nearest and farthest points on the grid, so a minimum   *)
(* over the grid points of a box is the minimum over the box.  A distance  *)
(* to an empty box (it has no point) is infinite.                          *)

RECURSIVE Sum(_)
Sum(seq) ==
    IF seq = << >> THEN 0
    ELSE Sum(SubSeq(seq, 1, Len(seq) - 1)) + seq[Len(seq)]

SqDist(x, y) == Sum([i \in 1 .. Len(x) |-> (x[i] - y[i]) * (x[i] - y[i])])

InBox(b) ==
    { x \in Points(b.dim) :
        \A i \in 1 .. b.dim : b.bounds[i].lo <= x[i] /\ x[i] <= b.bounds[i].hi }

SetMin(S) == IF S = {} THEN Inf ELSE CHOOSE m \in S : \A n \in S : m <= n

NearestSq(b, p) == SetMin({ SqDist(p, x) : x \in InBox(b) })

MinPairSq(a, o) == SetMin({ NearestSq(o, x) : x \in InBox(a) })

OverlapOnEveryAxis(a, o) ==
    \A i \in 1 .. a.dim :
        a.bounds[i].lo <= o.bounds[i].hi /\ o.bounds[i].lo <= a.bounds[i].hi

NonEmpty(b) == \A i \in 1 .. b.dim : b.bounds[i].lo <= b.bounds[i].hi

NonDegenerate(b) == \A i \in 1 .. b.dim : b.bounds[i].lo < b.bounds[i].hi

---------------------------------------------------------------------------
(* Claims on the const member functions, under SpecQuery. *)

C4_InsideIsZero ==
    (/\ query.op = "MinDistancePoint"
     /\ \A i \in 1 .. bound.dim :
            /\ bound.bounds[i].lo <= query.point[i]
            /\ query.point[i] <= bound.bounds[i].hi)
    => query.val = 0

\* A point strictly inside a two-axis box.
C4_Witness ==
    /\ query.op = "MinDistancePoint"
    /\ bound.dim = 2
    /\ \A i \in 1 .. 2 :
            /\ bound.bounds[i].lo < query.point[i]
            /\ query.point[i] < bound.bounds[i].hi
    /\ query.val = 0

FilteredOps ==
    {"MinDistancePointFiltered", "MinDistanceBoundFiltered",
     "MaxDistancePointFiltered", "MaxDistanceBoundFiltered"}

\* C8: a filtered distance query with an empty index sequence returns 0,
\* and on a bound of dim 0 MinDistance and MaxDistance return 0 and
\* RangeDistance returns (0, 0).
C8_DegenerateIsZero ==
    /\ (query.op \in FilteredOps /\ query.indices = << >>) => query.val = 0
    /\ (bound.dim = 0 /\ query.op \in {"MinDistancePoint", "MinDistanceBound",
                                       "MaxDistancePoint", "MaxDistanceBound"})
          => query.val = 0
    /\ (bound.dim = 0 /\ query.op \in {"RangeDistancePoint",
                                       "RangeDistanceBound"})
          => query.range = [lo |-> 0, hi |-> 0]

\* A filtered MaxDistance with no index, of a point outside a two-axis box.
C8_Witness ==
    /\ query.op = "MaxDistancePointFiltered"
    /\ query.indices = << >>
    /\ bound.dim = 2
    /\ NonEmpty(bound)
    /\ ~Contains(bound, query.point)
    /\ query.val = 0

\* C9: for a bound whose every axis has lo < hi, Centroid writes a vector
\* of exactly dim entries, entry i being (lo_i + hi_i) / 2, and Contains of
\* that vector is true.
C9_CentroidContained ==
    (query.op \in {"Centroid", "ContainsCentroid"} /\ NonDegenerate(bound)) =>
        /\ Len(query.vec) = bound.dim
        /\ \A i \in 1 .. bound.dim :
              2 * query.vec[i] = bound.bounds[i].lo + bound.bounds[i].hi
        /\ query.op = "ContainsCentroid" => query.flag

\* Contains of the centroid written into a vector that came with another
\* length, for a two-axis box.
C9_Witness ==
    /\ query.op = "ContainsCentroid"
    /\ bound.dim = 2
    /\ NonDegenerate(bound)
    /\ Len(query.point) # 2
    /\ query.vec[1] # query.vec[2]
    /\ query.flag

ExampleBound ==
    [dim |-> 2, bounds |-> <<[lo |-> 0, hi |-> 10], [lo |-> 0, hi |-> 10]>>]

\* C10: for the bound [0,10] x [0,10] and the point (15, 5), MinDistance
\* returns 25 and MaxDistance returns 250.
C10_WorkedExample ==
    (bound = ExampleBound /\ query.point = <<15, 5>>) =>
        /\ query.op = "MinDistancePoint" => query.val = 25
        /\ query.op = "MaxDistancePoint" => query.val = 250

\* MaxDistance of the example has returned.
C10_Witness ==
    /\ bound = ExampleBound
    /\ query.point = <<15, 5>>
    /\ query.op = "MaxDistancePoint"
    /\ query.val = 250

\* The index sequence lists every one of the d axes 0 .. d - 1 exactly once.
AllAxesOnce(indices, d) ==
    /\ Len(indices) = d
    /\ \A axis \in 0 .. d - 1 : \E index \in 1 .. d : indices[index] = axis

\* The operand of the query (its point, or its other bound if that is not
\* empty) has every coordinate on the grid.
OperandOnGrid ==
    /\ \A i \in 1 .. Len(query.point) : query.point[i] \in Coords
    /\ \A i \in 1 .. query.other.dim :
          NonEmpty(query.other) =>
              query.other.bounds[i] \in Intervals

\* C12 (as stated): on a bound with non-empty axes, MaxDistance(p, indices)
\* and MaxDistance(O, indices), given an index sequence that lists every
\* axis exactly once, return what MaxDistance(p) and MaxDistance(O) return,
\* for every point p and every bound O of the bound's dimension.
C12_FilteredMaxAgrees ==
    (NonEmpty(bound) /\ AllAxesOnce(query.indices, bound.dim)) =>
        /\ query.op = "MaxDistancePointFiltered" =>
              query.val = MaxDistancePoint(bound, query.point)
        /\ query.op = "MaxDistanceBoundFiltered" =>
              query.val = MaxDistanceBound(bound, query.other)

\* C12 (amended): the filtered and the unfiltered MaxDistance return the
\* same value, given an index sequence that lists every axis exactly once,
\* on a bound with non-empty axes and an operand whose coordinates are on
\* the grid, where the sums of the filtered form and their squares, four
\* times those of the unfiltered form, are computed exactly.
C12_FilteredMaxAgreesExact ==
    OperandOnGrid => C12_FilteredMaxAgrees

\* The filtered MaxDistance to another non-empty box of the grid, the two
\* axes listed in reverse order, the farthest corners differing on both.
C12_Witness ==
    /\ query.op = "MaxDistanceBoundFiltered"
    /\ bound.dim = 2
    /\ query.indices = <<1, 0>>
    /\ NonEmpty(bound)
    /\ NonEmpty(query.other)
    /\ OperandOnGrid
    /\ bound.bounds[1] # query.other.bounds[1]
    /\ bound.bounds[2] # bound.bounds[1]
    /\ 0 < query.val
    /\ query.val < Half
    /\ query.val = MaxDistanceBound(bound, query.other)

\* The filtered form overflows where the unfiltered form does not: a point
\* with the coordinate Big, whose filtered MaxDistance is infinite.
C12_Overflow ==
    /\ query.op = "MaxDistancePointFiltered"
    /\ bound.dim = 1
    /\ NonEmpty(bound)
    /\ query.indices = <<0>>
    /\ query.point = <<Big>>
    /\ query.val = Inf
    /\ MaxDistancePoint(bound, query.point) = Big * Big

---------------------------------------------------------------------------
(* SpecUnion: a bound grown by unions.  hist keeps the last union: its     *)
(* operand, the array before it, whether the union before it had the same  *)
(* operand (count 2) and the array before the first of the two.  The bound *)
(* starts as any bound a sequence of unions can have made, so a behaviour  *)
(* is one union with any operand and then the same union once more.        *)

InitUnion ==
    /\ bound \in AllBounds
    /\ hist = NoHist
    /\ query = NoQuery
    /\ objs = << >>
    /\ heap = << >>
    /\ kmeans = NoRun

\* bound |= point
ApplyUnionPoint ==
    \E point \in Points(bound.dim) :
        LET again == hist.kind = "point" /\ hist.point = point
        IN  /\ hist.count = 0 \/ again
            /\ bound' = [bound EXCEPT !.bounds = UnionPoint(bound, point)]
            /\ hist' = [kind |-> "point", point |-> point, other |-> NoBound,
                        count |-> IF again THEN 2 ELSE 1,
                        start |-> IF again THEN hist.before ELSE bound.bounds,
                        before |-> bound.bounds,
                        obj |-> "none", dim |-> bound.dim, points |-> {}]
            /\ UNCHANGED <<objs, heap, query, kmeans>>

\* bound |= other
ApplyUnionBound ==
    \E other \in Bounds(bound.dim) :
        LET again == hist.kind = "bound" /\ hist.other = other
        IN  /\ hist.count = 0 \/ again
            /\ bound' = [bound EXCEPT !.bounds = UnionBound(bound, other)]
            /\ hist' = [kind |-> "bound", point |-> << >>, other |-> other,
                        count |-> IF again THEN 2 ELSE 1,
                        start |-> IF again THEN hist.before ELSE bound.bounds,
                        before |-> bound.bounds,
                        obj |-> "none", dim |-> bound.dim, points |-> {}]
            /\ UNCHANGED <<objs, heap, query, kmeans>>

NextUnion ==
    \/ ApplyUnionPoint
    \/ ApplyUnionBound

SpecUnion == InitUnion /\ [][NextUnion]_vars

\* The interval new holds every point of the interval old.
Superset(new, old) ==
    old.lo > old.hi \/ (new.lo <= old.lo /\ old.hi <= new.hi)

\* C5: after a union with a point or with a bound, every axis interval of
\* the bound is a superset of the interval the axis had before it.
C5_UnionMonotonic ==
    hist.kind # "none" =>
        /\ Len(bound.bounds) = Len(hist.before)
        /\ \A i \in 1 .. bound.dim : Superset(bound.bounds[i], hist.before[i])

\* A union with a point that moved one end of each of two axes and left the
\* other ends where they were.
C5_Witness ==
    /\ hist.kind = "point"
    /\ bound.dim = 2
    /\ hist.before[1].lo <= hist.before[1].hi
    /\ bound.bounds[1].lo < hist.before[1].lo
    /\ bound.bounds[1].hi = hist.before[1].hi
    /\ bound.bounds[2].hi > hist.before[2].hi
    /\ bound.bounds[2].lo = hist.before[2].lo

\* C6: the second of two unions in a row with the same operand leaves the
\* bound (its dim and its axis intervals) as the first left it.
C6_UnionIdempotent ==
    hist.count = 2 =>
        /\ Len(bound.bounds) = bound.dim
        /\ bound.bounds = hist.before

\* The same bound unioned in twice, the first union having grown both axes.
C6_Witness ==
    /\ hist.count = 2
    /\ hist.kind = "bound"
    /\ bound.dim = 2
    /\ hist.start[1] # hist.before[1]
    /\ hist.start[2] # hist.before[2]
    /\ hist.start[1].lo <= hist.start[1].hi
    /\ bound.bounds = hist.before

---------------------------------------------------------------------------
(* SpecGrow: a bound made by the sized constructor and grown by unions     *)
(* with points, any point of its dimension at each step, a point already   *)
(* unioned in too.  hist counts the unions and keeps the set of the points *)
(* unioned in: it forgets their order and their repetitions, so whatever   *)
(* a state says of the bound in terms of hist holds for every order that   *)
(* leads to it.                                                            *)

\* HRectBound(dimension): dim and the new array of empty Ranges.
SizedBound(dimension) ==
    [dim |-> dimension, bounds |-> [i \in 1 .. dimension |-> EmptyRange]]

InitGrow ==
    /\ bound \in { SizedBound(dimension) : dimension \in Dims }
    /\ hist = NoHist
    /\ query = NoQuery
    /\ objs = << >>
    /\ heap = << >>
    /\ kmeans = NoRun

\* bound |= point
GrowUnionPoint ==
    /\ hist.count < MaxUnions
    /\ \E point \in Points(bound.dim) :
          /\ bound' = [bound EXCEPT !.bounds = UnionPoint(bound, point)]
          /\ hist' = [NoHist EXCEPT !.kind = "point", !.point = point,
                                    !.count = hist.count + 1,
                                    !.points = hist.points \cup {point},
                                    !.before = bound.bounds,
                                    !.dim = bound.dim]
    /\ UNCHANGED <<objs, heap, query, kmeans>>

NextGrow ==
    \/ GrowUnionPoint

SpecGrow == InitGrow /\ [][NextGrow]_vars

SetMax(S) == CHOOSE m \in S : \A n \in S : n <= m

\* C13: a bound made with dimension d has every axis empty; after one or
\* more unions with points of d coordinates, axis i is [min, max] of the
\* i-th coordinates of the points unioned in, whatever their order and
\* their repetitions, and Contains is true of each of these points.
C13_TightestBox ==
    /\ Len(bound.bounds) = bound.dim
    /\ hist.count = 0 => \A i \in 1 .. bound.dim : bound.bounds[i] = EmptyRange
    /\ hist.count > 0 =>
          /\ \A i \in 1 .. bound.dim :
                bound.bounds[i] =
                    [lo |-> SetMin({ point[i] : point \in hist.points }),
                     hi |-> SetMax({ point[i] : point \in hist.points })]
          /\ \A point \in hist.points : Contains(bound, point)

\* Three unions of two points, one of them twice, the second to come
\* lower on one axis and higher on the other than the first.
C13_Witness ==
    /\ bound.dim = 2
    /\ hist.count = 3
    /\ Cardinality(hist.points) = 2
    /\ bound.bounds[1].lo < bound.bounds[1].hi
    /\ bound.bounds[2].lo < bound.bounds[2].hi
    /\ hist.point[1] = bound.bounds[1].lo
    /\ hist.point[2] = bound.bounds[2].hi
    /\ hist.before # bound.bounds
    /\ \A point \in hist.points : Contains(bound, point)

---------------------------------------------------------------------------
(* Spec: two HRectBound objects, a and b, through their constructors,      *)
(* assignment, destructor, Clear and unions.  An object holds dim and the  *)
(* pointer bounds; the arrays live in heap, where new[] takes the lowest   *)
(* free address and delete[] frees one.  After an assignment and after a   *)
(* Clear, and until the next operation, hist keeps which of the two it     *)
(* was, the object it was called on and the dim the object had.            *)

Objects == {"a", "b"}

NULL == 0

Addrs == 1 .. Cardinality(Objects)

Dead == [live |-> FALSE, dim |-> 0, bounds |-> NULL]

Free == [used |-> FALSE, cells |-> << >>]

\* new math::Range[n]: the address and the heap after it.
NewAddr(h) ==
    CHOOSE p \in Addrs : ~h[p].used /\ \A q \in 1 .. p - 1 : h[q].used

New(h, n) ==
    [h EXCEPT ![NewAddr(h)] =
        [used |-> TRUE, cells |-> [i \in 1 .. n |-> EmptyRange]]]

\* if (bounds) delete[] bounds;
Delete(h, p) == IF p # NULL THEN [h EXCEPT ![p] = Free] ELSE h

\* The object o as the member functions see it: dim and the array bounds
\* points to, in the heap h.
ValueIn(os, h, o) ==
    [dim |-> os[o].dim,
     bounds |-> IF os[o].bounds = NULL THEN << >> ELSE h[os[o].bounds].cells]

Value(o) == ValueIn(objs, heap, o)

\* The heap after the member function of o wrote the array cells.
Store(o, cells) ==
    IF objs[o].bounds = NULL THEN heap
    ELSE [heap EXCEPT ![objs[o].bounds].cells = cells]

\* The member function kind (operator= or Clear) of o has run: hist after
\* it.
Did(kind, o) ==
    [NoHist EXCEPT !.kind = kind, !.obj = o, !.dim = objs[o].dim]

Init ==
    /\ objs = [o \in Objects |-> Dead]
    /\ heap = [p \in Addrs |-> Free]
    /\ bound = NoBound
    /\ query = NoQuery
    /\ hist = NoHist
    /\ kmeans = NoRun

\* HRectBound o;
Construct(o) ==
    /\ ~objs[o].live
    /\ objs' = [objs EXCEPT ![o] = [live |-> TRUE, dim |-> 0, bounds |-> NULL]]
    /\ hist' = NoHist
    /\ UNCHANGED <<heap, bound, query, kmeans>>

\* HRectBound o(dimension);
ConstructSized(o, dimension) ==
    /\ ~objs[o].live
    /\ objs' = [objs EXCEPT ![o] = [live |-> TRUE, dim |-> dimension,
                                    bounds |-> NewAddr(heap)]]
    /\ heap' = New(heap, dimension)
    /\ hist' = NoHist
    /\ UNCHANGED <<bound, query, kmeans>>

\* The loop `for i < dim: bounds[i] = other[i]` of the copy constructor and
\* of operator=, run by o (whose dim and bounds are set) in the heap h.
CopyLoop(os, h, o, other) ==
    IF os[o].dim = 0 THEN h
    ELSE [h EXCEPT ![os[o].bounds].cells =
            [i \in 1 .. os[o].dim |-> h[os[other].bounds].cells[i]]]

\* HRectBound o(other);
CopyConstruct(o, other) ==
    /\ ~objs[o].live
    /\ objs[other].live
    /\ LET os == [objs EXCEPT ![o] = [live |-> TRUE, dim |-> objs[other].dim,
                                      bounds |-> NewAddr(heap)]]
       IN  /\ objs' = os
           /\ heap' = CopyLoop(os, New(heap, objs[other].dim), o, other)
    /\ hist' = NoHist
    /\ UNCHANGED <<bound, query, kmeans>>

\* o = other; (other may be o itself)
Assign(o, other) ==
    /\ objs[o].live
    /\ objs[other].live
    /\ LET freed == Delete(heap, objs[o].bounds)
           os == [objs EXCEPT ![o] = [live |-> TRUE, dim |-> objs[other].dim,
                                      bounds |-> NewAddr(freed)]]
       IN  /\ objs' = os
           /\ heap' = CopyLoop(os, New(freed, objs[other].dim), o, other)
    /\ hist' = Did("Assign", o)
    /\ UNCHANGED <<bound, query, kmeans>>

\* ~HRectBound()
Destroy(o) ==
    /\ objs[o].live
    /\ objs' = [objs EXCEPT ![o] = Dead]
    /\ heap' = Delete(heap, objs[o].bounds)
    /\ hist' = NoHist
    /\ UNCHANGED <<bound, query, kmeans>>

\* o.Clear();
DoClear(o) ==
    /\ objs[o].live
    /\ heap' = Store(o, Clear(Value(o)))
    /\ hist' = Did("Clear", o)
    /\ UNCHANGED <<objs, bound, query, kmeans>>

\* o |= vector;
DoUnionPoint(o, vector) ==
    /\ objs[o].live
    /\ Len(vector) = objs[o].dim
    /\ heap' = Store(o, UnionPoint(Value(o), vector))
    /\ hist' = NoHist
    /\ UNCHANGED <<objs, bound, query, kmeans>>

\* o |= other; (other may be o itself)
DoUnionBound(o, other) ==
    /\ objs[o].live
    /\ objs[other].live
    /\ objs[other].dim = objs[o].dim
    /\ heap' = Store(o, UnionBound(Value(o), Value(other)))
    /\ hist' = NoHist
    /\ UNCHANGED <<objs, bound, query, kmeans>>

Next ==
    \/ \E o \in Objects : Construct(o)
    \/ \E o \in Objects, dimension \in Dims : ConstructSized(o, dimension)
    \/ \E o \in Objects, other \in Objects : CopyConstruct(o, other)
    \/ \E o \in Objects, other \in Objects : Assign(o, other)
    \/ \E o \in Objects : Destroy(o)
    \/ \E o \in Objects : DoClear(o)
    \/ \E o \in Objects, vector \in AllPoints : DoUnionPoint(o, vector)
    \/ \E o \in Objects, other \in Objects : DoUnionBound(o, other)

Spec == Init /\ [][Next]_vars

\* A step is a union into o or a Clear of o.
Mutates(o) ==
    \/ DoClear(o)
    \/ \E vector \in AllPoints : DoUnionPoint(o, vector)
    \/ \E other \in Objects : DoUnionBound(o, other)

\* C7: after o is copy-constructed from other, or after o = other (o and
\* other being the same object too), o has the dim and the axis intervals
\* other had before, in an array other does not point to: a union or a
\* Clear of one of two objects leaves the other as it was.
C7_DeepCopy ==
    [][\A o \in Objects, other \in Objects :
          /\ (Assign(o, other) \/ CopyConstruct(o, other)) =>
                /\ ValueIn(objs', heap', o) = Value(other)
                /\ o # other => objs'[o].bounds # objs'[other].bounds
          /\ (o # other /\ Mutates(o)) =>
                ValueIn(objs', heap', other) = Value(other)]_vars

\* C11: a live bound's array holds exactly dim intervals in every state; a
\* step changes the dim of a bound that stays alive only if it is an
\* assignment from another bound (the unions and Clear leave dim as it
\* was); Clear leaves every one of the dim axes empty; and a call of a
\* const member function (Centroid, Contains, the distance queries) leaves
\* the bound it is called on as it was.
C11_DimFrame ==
    /\ [](/\ \A o \in Objects :
                objs # << >> /\ objs[o].live =>
                    Len(Value(o).bounds) = objs[o].dim
          /\ Len(bound.bounds) = bound.dim)
    /\ [][/\ \A o \in Objects :
                objs # << >> =>
                  /\ (/\ objs[o].live /\ objs'[o].live
                      /\ objs'[o].dim # objs[o].dim)
                        => \E other \in Objects \ {o} : Assign(o, other)
                  /\ (hist'.kind = "Clear" /\ DoClear(o)) =>
                        ValueIn(objs', heap', o) =
                            [dim |-> objs[o].dim,
                             bounds |-> [i \in 1 .. objs[o].dim |-> EmptyRange]]
          /\ query' # query => bound' = bound]_vars

\* An assignment has given a, which had one axis, the two non-empty axes
\* of b in an array of its own.
C11_Witness ==
    /\ hist.kind = "Assign"
    /\ hist.obj = "a"
    /\ hist.dim = 1
    /\ objs["a"].dim = 2
    /\ Len(Value("a").bounds) = 2
    /\ NonEmpty(Value("a"))
    /\ Value("a") = Value("b")
    /\ objs["a"].bounds # objs["b"].bounds

---------------------------------------------------------------------------
(* SpecKMeans: one run of the k-means executable, kmeans_main.cpp, from    *)
(* the parsed command line to its exit.  kmeans.cli is the command line:   *)
(* has[f] is CLI::HasParam(f), the other fields are the values of the      *)
(* numeric options (percentage in hundredths) and whether data::Load can   *)
(* read the two input files.  Log::Fatal ends the run.  The random seed    *)
(* and the contents of the matrices are not part of the model.             *)

Flags ==
    {"in_place", "output_file", "centroid_file", "allow_empty_clusters",
     "labels_only", "initial_centroids", "refined_start", "elkan"}

CommandLines ==
    [has : [Flags -> BOOLEAN],
     clusters : {0, 2},
     max_iterations : {-1, 1000},
     samplings : {-1, 100},
     percentage : {0, 2, 101},
     readable : [{"inputFile", "initial_centroids"} -> BOOLEAN]]

\* kmeans.Cluster has not been called.
NoCall == [called |-> FALSE, assignments |-> FALSE, initialGuess |-> FALSE]

\* main() is entered with the command line cli parsed.
Started(cli) ==
    [pc |-> "main", cli |-> cli, ipp |-> "none", ecp |-> "none",
     lloyd |-> "none", log |-> {}, cluster |-> NoCall, saved |-> {}]

InitKMeans ==
    /\ kmeans \in { Started(cli) : cli \in CommandLines }
    /\ objs = << >>
    /\ heap = << >>
    /\ bound = NoBound
    /\ query = NoQuery
    /\ hist = NoHist

\* The run goes on as k; nothing else changes.
Goes(k) ==
    /\ kmeans' = k
    /\ UNCHANGED <<objs, heap, bound, query, hist>>

\* Log::Fatal << message << endl;
Fatal(message) ==
    [kmeans EXCEPT !.pc = "fatal", !.log = kmeans.log \cup {message}]

\* main(): the initial partition policy.
Main ==
    /\ kmeans.pc = "main"
    /\ LET cli == kmeans.cli
       IN  Goes(IF cli.has["refined_start"]
                THEN IF cli.samplings < 0
                     THEN Fatal("samplings")
                     ELSE IF cli.percentage <= 0 \/ cli.percentage > 100
                     THEN Fatal("percentage")
                     ELSE [kmeans EXCEPT !.pc = "FindEmptyClusterPolicy",
                                         !.ipp = "RefinedStart"]
                ELSE [kmeans EXCEPT !.pc = "FindEmptyClusterPolicy",
                                    !.ipp = "RandomPartition"])

\* FindEmptyClusterPolicy<InitialPartitionPolicy>(ipp)
FindEmptyClusterPolicy ==
    /\ kmeans.pc = "FindEmptyClusterPolicy"
    /\ Goes([kmeans EXCEPT !.pc = "FindLloydStepType",
                !.ecp = IF kmeans.cli.has["allow_empty_clusters"]
                        THEN "AllowEmptyClusters"
                        ELSE "MaxVarianceNewCluster"])

\* FindLloydStepType<InitialPartitionPolicy, EmptyClusterPolicy>(ipp)
FindLloydStepType ==
    /\ kmeans.pc = "FindLloydStepType"
    /\ Goes([kmeans EXCEPT !.pc = "RunKMeans",
                !.lloyd = IF kmeans.cli.has["elkan"]
                          THEN "ElkanKMeans" ELSE "NaiveKMeans"])

\* RunKMeans<InitialPartitionPolicy, EmptyClusterPolicy, LloydStepType>(ipp)
RunKMeans ==
    /\ kmeans.pc = "RunKMeans"
    /\ LET cli == kmeans.cli
           has == cli.has
           warned == IF ~has["in_place"] /\ ~has["output_file"]
                        /\ ~has["centroid_file"]
                     THEN {"no results will be saved"} ELSE {}
           initialCentroidGuess == has["initial_centroids"]
           logged == warned \cup
                     (IF ~initialCentroidGuess THEN {}
                      ELSE IF has["refined_start"]
                      THEN {"initial centroids will be ignored"}
                      ELSE {"using initial centroid guesses"})
           withAssignments == has["output_file"] \/ has["in_place"]
           results == IF ~withAssignments THEN {}
                      ELSE IF has["in_place"] THEN {"inputFile"}
                      ELSE IF has["labels_only"] THEN {"output_file labels"}
                      ELSE {"output_file"}
           centroids == IF has["centroid_file"] THEN {"centroid_file"} ELSE {}
       IN  Goes(IF cli.clusters < 1 THEN Fatal("clusters")
                ELSE IF cli.max_iterations < 0 THEN Fatal("max_iterations")
                ELSE IF ~cli.readable["inputFile"]
                THEN [kmeans EXCEPT !.pc = "fatal",
                                    !.log = warned \cup {"inputFile"}]
                ELSE IF initialCentroidGuess
                        /\ ~cli.readable["initial_centroids"]
                THEN [kmeans EXCEPT !.pc = "fatal",
                                    !.log = warned \cup {"initial_centroids"}]
                ELSE [kmeans EXCEPT
                        !.pc = "exit",
                        !.log = logged,
                        !.cluster = [called |-> TRUE,
                                     assignments |-> withAssignments,
                                     initialGuess |-> initialCentroidGuess],
                        !.saved = results \cup centroids])

NextKMeans ==
    \/ Main
    \/ FindEmptyClusterPolicy
    \/ FindLloydStepType
    \/ RunKMeans

SpecKMeans == InitKMeans /\ [][NextKMeans]_vars

\* C14: when the command line has both --initial_centroids and
\* --refined_start, a run that reaches its end has called Cluster, with or
\* without assignments as the output flags say, without an initial-centroid
\* guess, under the refined-start policy.
C14_RefinedStartIgnoresGuess ==
    (/\ kmeans.pc = "exit"
     /\ kmeans.cli.has["initial_centroids"]
     /\ kmeans.cli.has["refined_start"])
    => /\ kmeans.ipp = "RefinedStart"
       /\ kmeans.cluster.called
       /\ ~kmeans.cluster.initialGuess

\* What the code does: Cluster is given the guess whenever
\* --initial_centroids is on the command line, the warning that the
\* centroids will be ignored having been logged under --refined_start.
C14_GuessFollowsInitialCentroids ==
    kmeans.pc = "exit" =>
        /\ kmeans.cluster.called
        /\ kmeans.cluster.initialGuess = kmeans.cli.has["initial_centroids"]
        /\ ("initial centroids will be ignored" \in kmeans.log) <=>
              (/\ kmeans.cli.has["initial_centroids"]
               /\ kmeans.cli.has["refined_start"])

\* A run with both options that warned and then gave Cluster the guess,
\* none of the output flags set.
C14_Witness ==
    /\ kmeans.pc = "exit"
    /\ kmeans.cli.has["initial_centroids"]
    /\ kmeans.cli.has["refined_start"]
    /\ ~kmeans.cli.has["in_place"]
    /\ ~kmeans.cli.has["output_file"]
    /\ ~kmeans.cli.has["centroid_file"]
    /\ kmeans.ipp = "RefinedStart"
    /\ "initial centroids will be ignored" \in kmeans.log
    /\ kmeans.cluster.initialGuess

===========================================================================
